---- MODULE Spec2Model ----
(***************************************************************************)
(* Model of jok3r's filter translation (lib/requester/Condition.py) and of *)
(* its service-name normalisation (lib/importer/Config.py).                *)
(*                                                                         *)
(* Python strings are sequences of one-character strings, so that parsing, *)
(* case folding, splitting and regular-expression matching are computed    *)
(* character by character as the interpreter computes them.                *)
(***************************************************************************)
EXTENDS Integers, Sequences, FiniteSets, TLC

VARIABLES
    conds,      \* the Condition objects: sequence of [value, filtertype, mapping]
    ctor,       \* per object, the arguments its constructor was given
    first,      \* per object, the outcome of its first translate() call
    last,       \* per object, the outcome of its latest translate() call
    sessions,   \* number of Session() objects requested from the query layer
    rawName,    \* argument of the latest get_service_name() call
    svcName,    \* its return value
    svcName2,   \* get_service_name() applied to that return value
    namePc      \* "idle", "once" or "twice": the get_service_name() calls made

vars == <<conds, ctor, first, last, sessions, rawName, svcName, svcName2, namePc>>

-----------------------------------------------------------------------------
(* Bounds of the model.                                                    *)

\* longest list of values a Condition is built with
MaxLen == 2
\* Session() calls after which the unscanned comparator is no longer called
MaxSessions == 2
\* number of tokens a raw service name is concatenated from
MaxNameParts == 2

-----------------------------------------------------------------------------
(* Python values: str, bool and int, as records of one shape.              *)

StrVal(s) == [t |-> "str", s |-> s, n |-> 0]
BoolVal(b) == [t |-> "bool", s |-> <<>>, n |-> IF b THEN 1 ELSE 0]
IntVal(n) == [t |-> "int", s |-> <<>>, n |-> n]

Digits == <<"0", "1", "2", "3", "4", "5", "6", "7", "8", "9">>
UpperCase == <<"A", "B", "C", "D", "E", "F", "G", "H", "I", "J", "K", "L", "M",
               "N", "O", "P", "Q", "R", "S", "T", "U", "V", "W", "X", "Y", "Z">>
LowerCase == <<"a", "b", "c", "d", "e", "f", "g", "h", "i", "j", "k", "l", "m",
               "n", "o", "p", "q", "r", "s", "t", "u", "v", "w", "x", "y", "z">>
WhiteSpace == {" ", "\t", "\n", "\r", "\f"}

IsDigit(c) == \E i \in 1..Len(Digits) : Digits[i] = c
DigitVal(c) == (CHOOSE i \in 1..Len(Digits) : Digits[i] = c) - 1

\* str.lower(), one character
LowerChar(c) ==
    IF \E i \in 1..Len(UpperCase) : UpperCase[i] = c
    THEN LowerCase[CHOOSE i \in 1..Len(UpperCase) : UpperCase[i] = c]
    ELSE c

\* str.lower()
Lower(s) == [i \in 1..Len(s) |-> LowerChar(s[i])]

\* str.strip() on whitespace
RECURSIVE LStrip(_)
LStrip(s) == IF s # <<>> /\ s[1] \in WhiteSpace THEN LStrip(Tail(s)) ELSE s
RECURSIVE RStrip(_)
RStrip(s) ==
    IF s # <<>> /\ s[Len(s)] \in WhiteSpace
    THEN RStrip(SubSeq(s, 1, Len(s) - 1))
    ELSE s
Strip(s) == RStrip(LStrip(s))

\* number of occurrences of character c in s: str.count(c)
RECURSIVE Count(_, _)
Count(s, c) ==
    IF s = <<>> THEN 0
    ELSE (IF s[1] = c THEN 1 ELSE 0) + Count(Tail(s), c)

\* index of the first occurrence of c in s (0 when absent)
IndexOf(s, c) ==
    IF \E i \in 1..Len(s) : s[i] = c
    THEN CHOOSE i \in 1..Len(s) : s[i] = c /\ \A j \in 1..(i - 1) : s[j] # c
    ELSE 0

\* str.split(c): the sequence of the pieces between occurrences of c
RECURSIVE Split(_, _)
Split(s, c) ==
    IF IndexOf(s, c) = 0 THEN <<s>>
    ELSE <<SubSeq(s, 1, IndexOf(s, c) - 1)>>
         \o Split(SubSeq(s, IndexOf(s, c) + 1, Len(s)), c)

\* a non-empty run of decimal digits, with single underscores between digits
IsDigitRun(s) ==
    /\ s # <<>>
    /\ \A i \in 1..Len(s) : IsDigit(s[i]) \/ s[i] = "_"
    /\ IsDigit(s[1]) /\ IsDigit(s[Len(s)])
    /\ \A i \in 1..(Len(s) - 1) : ~(s[i] = "_" /\ s[i + 1] = "_")

RECURSIVE DigitRunVal(_, _)
DigitRunVal(s, acc) ==
    IF s = <<>> THEN acc
    ELSE IF s[1] = "_" THEN DigitRunVal(Tail(s), acc)
    ELSE DigitRunVal(Tail(s), 10 * acc + DigitVal(s[1]))

HasSign(s) == s # <<>> /\ s[1] \in {"+", "-"}
Unsigned(s) == IF HasSign(s) THEN Tail(s) ELSE s

\* int(x) succeeds: x is a bool, an int, or a str holding an integer literal
\* (surrounding whitespace and a sign allowed)
CanInt(v) == v.t # "str" \/ IsDigitRun(Unsigned(Strip(v.s)))

\* int(x), where it succeeds
PyInt(v) ==
    IF v.t # "str" THEN v.n
    ELSE LET u == Strip(v.s)
             m == DigitRunVal(Unsigned(u), 0)
         IN  IF HasSign(u) /\ u[1] = "-" THEN 0 - m ELSE m

\* decimal digits of a natural number
RECURSIVE NatStr(_)
NatStr(n) ==
    IF n < 10 THEN <<Digits[n + 1]>>
    ELSE NatStr(n \div 10) \o <<Digits[(n % 10) + 1]>>

\* str(x)
PyStr(v) ==
    CASE v.t = "str" -> v.s
      [] v.t = "bool" -> IF v.n = 1 THEN <<"T", "r", "u", "e">>
                         ELSE <<"F", "a", "l", "s", "e">>
      [] OTHER -> IF v.n < 0 THEN <<"-">> \o NatStr(0 - v.n) ELSE NatStr(v.n)

\* truth value of x in `if x:`
Truthy(v) == IF v.t = "str" THEN v.s # <<>> ELSE v.n # 0

-----------------------------------------------------------------------------
(* lib.utils.NetUtils: the syntax checks the address and port comparators  *)
(* call.  The file is not among the sources; the checks follow the value   *)
(* syntaxes the specification documents for each kind.                     *)

\* a run of 1 to n decimal digits
IsDecimal(s, n) ==
    /\ Len(s) \in 1..n
    /\ \A i \in 1..Len(s) : IsDigit(s[i])

\* dotted quad: four decimal fields of 0..255
IsDottedQuad(s) ==
    LET parts == Split(s, ".")
    IN  /\ Len(parts) = 4
        /\ \A i \in 1..4 :
              IsDecimal(parts[i], 3) /\ DigitRunVal(parts[i], 0) <= 255

is_valid_ip(v) == v.t = "str" /\ IsDottedQuad(v.s)

\* CIDR range: dotted quad, "/", prefix length 0..32
is_valid_ip_range(v) ==
    /\ v.t = "str"
    /\ Count(v.s, "/") = 1
    /\ LET parts == Split(v.s, "/")
       IN  /\ IsDottedQuad(parts[1])
           /\ IsDecimal(parts[2], 2)
           /\ DigitRunVal(parts[2], 0) <= 32

IsPortString(s) == IsDecimal(s, 5) /\ DigitRunVal(s, 0) <= 65535

\* integer string in 0..65535
is_valid_port(v) == v.t = "str" /\ IsPortString(v.s)

\* "min-max" with both ends ports and min <= max
is_valid_port_range(v) ==
    /\ v.t = "str"
    /\ Count(v.s, "-") = 1
    /\ LET parts == Split(v.s, "-")
       IN  /\ IsPortString(parts[1])
           /\ IsPortString(parts[2])
           /\ DigitRunVal(parts[1], 0) <= DigitRunVal(parts[2], 0)

-----------------------------------------------------------------------------
(* Sqlalchemy filter expressions, as trees.  A leaf names the column it    *)
(* tests and carries its argument as a Python value.                       *)

None == [op |-> "None"]

Eq(field, v) == [op |-> "eq", field |-> field, arg |-> v]
\* column.ilike('%' + str(value) + '%')
Ilike(field, v) ==
    [op |-> "ilike", field |-> field,
     arg |-> StrVal(<<"%">> \o PyStr(v) \o <<"%">>)]
Between(field, lo, hi) ==
    [op |-> "between", field |-> field, arg |-> IntVal(lo), arg2 |-> IntVal(hi)]
InIpRange(v) == [op |-> "is_in_ip_range", field |-> "Host.ip", arg |-> v]
IsNone(field) == [op |-> "is_None", field |-> field]
IsNotNone(field) == [op |-> "isnot_None", field |-> field]
And(l, r) == [op |-> "and", l |-> l, r |-> r]
Or(l, r) == [op |-> "or", l |-> l, r |-> r]
\* not_(session.query(Result).filter(Service.id == Result.service_id).exists())
NotExistsResult ==
    [op |-> "not_exists", field |-> "Result",
     on |-> <<"Service.id", "Result.service_id">>]

ProtocolTCP == [t |-> "Protocol", s |-> <<"T", "C", "P">>, n |-> 0]
ProtocolUDP == [t |-> "Protocol", s |-> <<"U", "D", "P">>, n |-> 0]

-----------------------------------------------------------------------------
(* What a call produces: a returned filter (or None), or an exception with *)
(* the value it was raised for.                                            *)

Return(p) == [kind |-> "return", exc |-> "", pred |-> p, value |-> StrVal(<<>>)]
Raise(e, v) == [kind |-> "raise", exc |-> e, pred |-> None, value |-> v]

-----------------------------------------------------------------------------
(* The comparators of class Condition.                                     *)

translate_ip(value) ==
    IF is_valid_ip(value) THEN Return(Eq("Host.ip", value))
    ELSE IF is_valid_ip_range(value) THEN Return(InIpRange(value))
    ELSE Raise("FilterException", value)

translate_host(value) == Return(Ilike("Host.hostname", value))

\* the range branch names `Sevrice`, which is bound nowhere: evaluating it
\* raises NameError before the bounds are parsed
translate_port(value) ==
    IF is_valid_port(value) THEN Return(Eq("Service.port", IntVal(PyInt(value))))
    ELSE IF is_valid_port_range(value) THEN Raise("NameError", value)
    ELSE Raise("FilterException", value)

\* value.lower() exists on str only
translate_protocol(value) ==
    IF value.t # "str" THEN Raise("AttributeError", value)
    ELSE IF Lower(value.s) = <<"t", "c", "p">> THEN Return(Eq("Service.protocol", ProtocolTCP))
    ELSE IF Lower(value.s) = <<"u", "d", "p">> THEN Return(Eq("Service.protocol", ProtocolUDP))
    ELSE Raise("FilterException", value)

translate_up(value) ==
    IF value.t = "bool" THEN Return(Eq("Service.up", value))
    ELSE IF value.t = "str"
    THEN Return(Eq("Service.up", BoolVal(Lower(value.s) = <<"t", "r", "u", "e">>)))
    ELSE Raise("FilterException", value)

translate_service(value) == Return(Ilike("Service.name", value))
translate_service_exact(value) == Return(Eq("Service.name", value))

\* int(value) raises ValueError on a str that is no integer literal
translate_service_id(value) ==
    IF CanInt(value) THEN Return(Eq("Service.id", IntVal(PyInt(value))))
    ELSE Raise("ValueError", value)

translate_os(value) == Return(Ilike("Host.os", value))
translate_os_family(value) == Return(Ilike("Host.os_family", value))
translate_banner(value) == Return(Ilike("Service.banner", value))
translate_url(value) == Return(Ilike("Service.url", value))
translate_url_exact(value) == Return(Eq("Service.url", StrVal(PyStr(value))))
translate_html_title(value) == Return(Ilike("Service.html_title", value))
translate_http_headers(value) == Return(Ilike("Service.http_headers", value))
translate_username(value) == Return(Ilike("Credential.username", value))
translate_password(value) == Return(Ilike("Credential.password", value))
translate_auth_type(value) == Return(Ilike("Credential.type", value))

translate_user_and_pass(boolean) ==
    IF Truthy(boolean)
    THEN Return(And(IsNotNone("Credential.username"),
                    IsNotNone("Credential.password")))
    ELSE Return(None)

\* variant: a false flag asks for entries without a username
translate_only_user_symmetric(boolean) ==
    IF Truthy(boolean)
    THEN Return(And(IsNotNone("Credential.username"),
                    IsNone("Credential.password")))
    ELSE Return(IsNone("Credential.username"))

translate_only_user(boolean) ==
    IF Truthy(boolean)
    THEN Return(And(IsNotNone("Credential.username"),
                    IsNone("Credential.password")))
    ELSE Return(None)

translate_comment_service(value) == Return(Ilike("Service.comment", value))
translate_comment_host(value) == Return(Ilike("Host.comment", value))
translate_comment_cred(value) == Return(Ilike("Credential.comment", value))
translate_comment_mission(value) == Return(Ilike("Mission.comment", value))
translate_mission_exact(value) == Return(Eq("Mission.name", value))
translate_mission(value) == Return(Ilike("Mission.name", value))

translate_check_id(value) ==
    IF CanInt(value) THEN Return(Eq("Result.id", IntVal(PyInt(value))))
    ELSE Raise("ValueError", value)

translate_check_name(value) == Return(Ilike("Result.check", value))
translate_command_output(value) == Return(Ilike("CommandOutput.output", value))
translate_vuln(value) == Return(Ilike("Vuln.name", value))
translate_option_name(value) == Return(Ilike("Option.name", value))
translate_option_value(value) == Return(Ilike("Option.value", value))
translate_product_type(value) == Return(Ilike("Product.type", value))
translate_product_name(value) == Return(Ilike("Product.name", value))
translate_product_version(value) == Return(Ilike("Product.version", value))

\* opens a Session() and returns the non-existence subquery; value is unused
translate_unscanned(value) == Return(NotExistsResult)

-----------------------------------------------------------------------------
(* Condition.__init__ and Condition.translate.                             *)

\* the pairs of self.mapping, in the order __init__ lists them
KindTable ==
    << <<"IP", "translate_ip">>,
       <<"HOST", "translate_host">>,
       <<"PORT", "translate_port">>,
       <<"PROTOCOL", "translate_protocol">>,
       <<"UP", "translate_up">>,
       <<"SERVICE", "translate_service">>,
       <<"SERVICE_EXACT", "translate_service_exact">>,
       <<"SERVICE_ID", "translate_service_id">>,
       <<"OS", "translate_os">>,
       <<"OS_FAMILY", "translate_os_family">>,
       <<"BANNER", "translate_banner">>,
       <<"URL", "translate_url">>,
       <<"URL_EXACT", "translate_url_exact">>,
       <<"HTML_TITLE", "translate_html_title">>,
       <<"HTTP_HEADERS", "translate_http_headers">>,
       <<"USERNAME", "translate_username">>,
       <<"PASSWORD", "translate_password">>,
       <<"AUTH_TYPE", "translate_auth_type">>,
       <<"USER_AND_PASS", "translate_user_and_pass">>,
       <<"ONLY_USER", "translate_only_user">>,
       <<"COMMENT_SERVICE", "translate_comment_service">>,
       <<"COMMENT_HOST", "translate_comment_host">>,
       <<"COMMENT_CRED", "translate_comment_cred">>,
       <<"COMMENT_MISSION", "translate_comment_mission">>,
       <<"MISSION_EXACT", "translate_mission_exact">>,
       <<"MISSION", "translate_mission">>,
       <<"CHECK_ID", "translate_check_id">>,
       <<"CHECK_NAME", "translate_check_name">>,
       <<"COMMAND_OUTPUT", "translate_command_output">>,
       <<"VULN", "translate_vuln">>,
       <<"OPTION_NAME", "translate_option_name">>,
       <<"OPTION_VALUE", "translate_option_value">>,
       <<"PRODUCT_TYPE", "translate_product_type">>,
       <<"PRODUCT_NAME", "translate_product_name">>,
       <<"PRODUCT_VERSION", "translate_product_version">>,
       <<"UNSCANNED", "translate_unscanned">> >>

MappedKinds == {KindTable[i][1] : i \in 1..Len(KindTable)}

\* self.mapping: filter type -> bound comparator
Mapping ==
    [k \in MappedKinds |->
        KindTable[CHOOSE i \in 1..Len(KindTable) : KindTable[i][1] = k][2]]

\* method_translate(v): the call of a bound comparator
Call(method, v) ==
    CASE method = "translate_ip" -> translate_ip(v)
      [] method = "translate_host" -> translate_host(v)
      [] method = "translate_port" -> translate_port(v)
      [] method = "translate_protocol" -> translate_protocol(v)
      [] method = "translate_up" -> translate_up(v)
      [] method = "translate_service" -> translate_service(v)
      [] method = "translate_service_exact" -> translate_service_exact(v)
      [] method = "translate_service_id" -> translate_service_id(v)
      [] method = "translate_os" -> translate_os(v)
      [] method = "translate_os_family" -> translate_os_family(v)
      [] method = "translate_banner" -> translate_banner(v)
      [] method = "translate_url" -> translate_url(v)
      [] method = "translate_url_exact" -> translate_url_exact(v)
      [] method = "translate_html_title" -> translate_html_title(v)
      [] method = "translate_http_headers" -> translate_http_headers(v)
      [] method = "translate_username" -> translate_username(v)
      [] method = "translate_password" -> translate_password(v)
      [] method = "translate_auth_type" -> translate_auth_type(v)
      [] method = "translate_user_and_pass" -> translate_user_and_pass(v)
      [] method = "translate_only_user" -> translate_only_user(v)
      [] method = "translate_comment_service" -> translate_comment_service(v)
      [] method = "translate_comment_host" -> translate_comment_host(v)
      [] method = "translate_comment_cred" -> translate_comment_cred(v)
      [] method = "translate_comment_mission" -> translate_comment_mission(v)
      [] method = "translate_mission_exact" -> translate_mission_exact(v)
      [] method = "translate_mission" -> translate_mission(v)
      [] method = "translate_check_id" -> translate_check_id(v)
      [] method = "translate_check_name" -> translate_check_name(v)
      [] method = "translate_command_output" -> translate_command_output(v)
      [] method = "translate_vuln" -> translate_vuln(v)
      [] method = "translate_option_name" -> translate_option_name(v)
      [] method = "translate_option_value" -> translate_option_value(v)
      [] method = "translate_product_type" -> translate_product_type(v)
      [] method = "translate_product_name" -> translate_product_name(v)
      [] method = "translate_product_version" -> translate_product_version(v)
      [] method = "translate_unscanned" -> translate_unscanned(v)

\* variant: self.value = value, so that a str is iterated character by
\* character
WrapValueUnwrapped(arg) ==
    IF arg.list \/ arg.items[1].t # "str" THEN arg.items
    ELSE [i \in 1..Len(arg.items[1].s) |-> StrVal(<<arg.items[1].s[i]>>)]

\* self.value = value if type(value) == list else [value]
\* (a constructor argument is [list, items]; a non-list has its one item)
WrapValue(arg) == IF arg.list THEN arg.items ELSE <<arg.items[1]>>

\* Condition(value, filtertype)
Condition(arg, filtertype) ==
    [value |-> WrapValue(arg), filtertype |-> filtertype, mapping |-> Mapping]

\* variant: self.mapping.get(self.filtertype, self.__translate_service)
MappingGetWithDefault(self) ==
    IF self.filtertype \in DOMAIN self.mapping
    THEN self.mapping[self.filtertype]
    ELSE "translate_service"

\* self.mapping.get(self.filtertype): the comparator, or "" for None
MappingGet(self) ==
    IF self.filtertype \in DOMAIN self.mapping
    THEN self.mapping[self.filtertype]
    ELSE ""

\* the for loop of translate, from the i-th value on, with the filter so far
\* and the number of comparator calls made; a comparator's exception leaves
\* the loop and the method
RECURSIVE TranslateLoop(_, _, _, _)
TranslateLoop(method, value, i, result) ==
    IF i > Len(value)
    THEN [kind |-> "return", exc |-> "", pred |-> result,
          value |-> StrVal(<<>>), invoked |-> Len(value)]
    ELSE LET translated == Call(method, value[i])
         IN  IF translated.kind = "raise"
             THEN [kind |-> "raise", exc |-> translated.exc, pred |-> None,
                   value |-> translated.value, invoked |-> i]
             ELSE IF translated.pred # None
             THEN IF result = None
                  THEN TranslateLoop(method, value, i + 1, translated.pred)
                  ELSE TranslateLoop(method, value, i + 1,
                                     Or(result, translated.pred))
             ELSE TranslateLoop(method, value, i + 1, result)

\* Condition.translate: what the call returns or raises
TranslateOutcome(self) ==
    LET method_translate == MappingGet(self)
    IN  IF method_translate = ""
        THEN [kind |-> "return", exc |-> "", pred |-> None,
              value |-> StrVal(<<>>), invoked |-> 0]
        ELSE TranslateLoop(method_translate, self.value, 1, None)

\* variant: the loop takes the values off self.value as it goes
translate_consuming(self) ==
    [self |-> [self EXCEPT !.value = <<>>], outcome |-> TranslateOutcome(self)]

\* Condition.translate: the object after the call, which the method does not
\* assign to, and the call's outcome
translate(self) == [self |-> self, outcome |-> TranslateOutcome(self)]

\* Session() calls a translate() call makes: one per unscanned comparator call
SessionCalls(self, outcome) ==
    IF MappingGet(self) = "translate_unscanned" THEN outcome.invoked ELSE 0

-----------------------------------------------------------------------------
(* Inputs.                                                                 *)

UnmappedKinds == {"NONE", "UNLISTED"}
Kinds == MappedKinds \cup UnmappedKinds

Values ==
    { StrVal(<<"s", "s", "h">>), StrVal(<<"f", "t", "p">>), StrVal(<<"8", "0">>), StrVal(<<"8", "0", "0", "0", "-", "8", "1", "0", "0">>),
      StrVal(<<"a", "b", "c">>), StrVal(<<"t", "c", "p">>), StrVal(<<"U", "D", "P">>), StrVal(<<"t", "r", "u", "e">>),
      StrVal(<<"1", "0", ".", "0", ".", "0", ".", "1">>), StrVal(<<"1", "0", ".", "0", ".", "0", ".", "0", "/", "2", "4">>), StrVal(<<"1", "0", ".", "0", ".", "0", ".", "1", "/", "3", "3">>),
      StrVal(<<>>), BoolVal(TRUE), BoolVal(FALSE), IntVal(5) }

SeqsUpTo(S, n) == UNION {[1..m -> S] : m \in 0..n}

\* constructor arguments: a list of up to MaxLen values, or a single value
CtorArgs(S) ==
    {[list |-> TRUE, items |-> s] : s \in SeqsUpTo(S, MaxLen)}
    \cup {[list |-> FALSE, items |-> <<v>>] : v \in S}

\* a small pool for runs with several Condition objects
PoolValues == {StrVal(<<"8", "0", "0", "0", "-", "8", "1", "0", "0">>), StrVal(<<"a", "b", "c">>), BoolVal(TRUE)}
PoolKinds ==
    {"IP", "PORT", "UP", "SERVICE_EXACT", "SERVICE_ID", "ONLY_USER",
     "HOST", "UNSCANNED", "NONE"}
PoolIds == {1, 2}

NotCalled == [kind |-> "none"]

-----------------------------------------------------------------------------
(* The state machine.                                                      *)

IdleNames ==
    /\ rawName = <<>>
    /\ svcName = <<>>
    /\ svcName2 = <<>>
    /\ namePc = "idle"

\* one Condition, built from any constructor arguments
Init ==
    /\ \E a \in CtorArgs(Values), k \in Kinds :
          /\ conds = <<Condition(a, k)>>
          /\ ctor = <<[value |-> a, filtertype |-> k]>>
    /\ first = <<NotCalled>>
    /\ last = <<NotCalled>>
    /\ sessions = 0
    /\ IdleNames

\* c.translate() for the Condition c
Translate(c) ==
    LET r == translate(conds[c])
        made == SessionCalls(conds[c], r.outcome)
    IN  /\ sessions + made <= MaxSessions
        /\ conds' = [conds EXCEPT ![c] = r.self]
        /\ first' = IF first[c] = NotCalled
                    THEN [first EXCEPT ![c] = r.outcome]
                    ELSE first
        /\ last' = [last EXCEPT ![c] = r.outcome]
        /\ sessions' = sessions + made
        /\ UNCHANGED <<ctor, rawName, svcName, svcName2, namePc>>

Next == \E c \in DOMAIN conds : Translate(c)

Spec == Init /\ [][Next]_vars

\* several Conditions side by side, built from the pool
InitPool ==
    /\ \E a \in [PoolIds -> CtorArgs(PoolValues)], k \in [PoolIds -> PoolKinds] :
          /\ conds = [c \in PoolIds |-> Condition(a[c], k[c])]
          /\ ctor = [c \in PoolIds |-> [value |-> a[c], filtertype |-> k[c]]]
    /\ first = [c \in PoolIds |-> NotCalled]
    /\ last = [c \in PoolIds |-> NotCalled]
    /\ sessions = 0
    /\ IdleNames

SpecPool == InitPool /\ [][Next]_vars

-----------------------------------------------------------------------------
(* lib/importer/Config.py: SERVICE_NAME_MATCHING and get_service_name.     *)

\* A regular expression is a sequence of items: a literal, an optional
\* literal ("x?" or "(xyz)?") or "\S*".  The leading "^" of every pattern is
\* implied by re.match, which matches at the start of the string only.
Lit(s) == [k |-> "lit", s |-> s]
Opt(s) == [k |-> "opt", s |-> s]
NonSpaces == [k |-> "star", s |-> <<>>]

\* s starts with the literal lit, letter case ignored (re.IGNORECASE)
StartsWithCI(s, lit) ==
    /\ Len(s) >= Len(lit)
    /\ \A i \in 1..Len(lit) : LowerChar(s[i]) = LowerChar(lit[i])

Drop(s, n) == SubSeq(s, n + 1, Len(s))

\* length of the longest prefix of s free of whitespace
RECURSIVE NonSpacePrefix(_)
NonSpacePrefix(s) ==
    IF s = <<>> \/ s[1] \in WhiteSpace THEN 0 ELSE 1 + NonSpacePrefix(Tail(s))

\* some prefix of s matches the items p, by backtracking over the choices
RECURSIVE MatchItems(_, _)
MatchItems(p, s) ==
    IF p = <<>> THEN TRUE
    ELSE CASE p[1].k = "lit" ->
                 StartsWithCI(s, p[1].s)
                 /\ MatchItems(Tail(p), Drop(s, Len(p[1].s)))
           [] p[1].k = "opt" ->
                 \/ StartsWithCI(s, p[1].s)
                    /\ MatchItems(Tail(p), Drop(s, Len(p[1].s)))
                 \/ MatchItems(Tail(p), s)
           [] p[1].k = "star" ->
                 \E n \in 0..NonSpacePrefix(s) : MatchItems(Tail(p), Drop(s, n))

\* re.match(pattern, string, re.IGNORECASE) is not None
ReMatch(pattern, string) == MatchItems(pattern, string)

\* the rules, in the order the dict literal lists them (the order a dict is
\* iterated in): <<pattern, service name>>
SERVICE_NAME_MATCHING ==
    << <<(<<Lit(<<"a", "j", "p">>), NonSpaces>>), <<"a", "j", "p">>>>,
       <<(<<Lit(<<"f", "t", "p">>), NonSpaces>>), <<"f", "t", "p">>>>,
       <<(<<NonSpaces, Lit(<<"h", "t", "t", "p">>), NonSpaces>>), <<"h", "t", "t", "p">>>>,
       <<(<<Lit(<<"s", "s", "l", "/", "s", "s", "l">>)>>), <<"h", "t", "t", "p">>>>,
       <<(<<Lit(<<"r", "m", "i", "r", "e", "g", "i", "s", "t", "r", "y">>)>>), <<"j", "a", "v", "a", "-", "r", "m", "i">>>>,
       <<(<<Lit(<<"j", "d", "w", "p">>)>>), <<"j", "d", "w", "p">>>>,
       <<(<<Lit(<<"m", "s">>), Opt(<<"-">>), Lit(<<"s", "q", "l">>), NonSpaces>>), <<"m", "s", "s", "q", "l">>>>,
       <<(<<Lit(<<"m", "y", "s", "q", "l">>), NonSpaces>>), <<"m", "y", "s", "q", "l">>>>,
       <<(<<Lit(<<"o", "r", "a", "c", "l", "e">>), NonSpaces>>), <<"o", "r", "a", "c", "l", "e">>>>,
       <<(<<Lit(<<"p", "o", "s", "t", "g", "r", "e">>), Opt(<<"s", "q", "l">>)>>), <<"p", "o", "s", "t", "g", "r", "e", "s", "q", "l">>>>,
       <<(<<Lit(<<"m", "s", "-", "w", "b", "t", "-", "s", "e", "r", "v", "e", "r">>)>>), <<"r", "d", "p">>>>,
       <<(<<Lit(<<"r", "d", "p">>)>>), <<"r", "d", "p">>>>,
       <<(<<Lit(<<"m", "i", "c", "r", "o", "s", "o", "f", "t", "-", "d", "s">>)>>), <<"s", "m", "b">>>>,
       <<(<<Lit(<<"s", "m", "b">>)>>), <<"s", "m", "b">>>>,
       <<(<<Lit(<<"s", "m", "t", "p">>), NonSpaces>>), <<"s", "m", "t", "p">>>>,
       <<(<<Lit(<<"s", "n", "m", "p">>), NonSpaces>>), <<"s", "n", "m", "p">>>>,
       <<(<<Lit(<<"s", "s", "h">>)>>), <<"s", "s", "h">>>>,
       <<(<<Lit(<<"t", "e", "l", "n", "e", "t">>), NonSpaces>>), <<"t", "e", "l", "n", "e", "t">>>>,
       <<(<<Lit(<<"v", "n", "c">>)>>), <<"v", "n", "c">>>> >>

\* the for loop of get_service_name from the i-th rule on, and its fallback
RECURSIVE ServiceNameFrom(_, _)
ServiceNameFrom(i, original_service_name) ==
    IF i > Len(SERVICE_NAME_MATCHING) THEN original_service_name
    ELSE IF ReMatch(SERVICE_NAME_MATCHING[i][1], original_service_name)
    THEN SERVICE_NAME_MATCHING[i][2]
    ELSE ServiceNameFrom(i + 1, original_service_name)

\* variant: the loop runs to its end, so that the last matching rule wins
get_service_name_last_match(original_service_name) ==
    LET hits == {i \in 1..Len(SERVICE_NAME_MATCHING) :
                    ReMatch(SERVICE_NAME_MATCHING[i][1], original_service_name)}
    IN  IF hits = {} THEN original_service_name
        ELSE SERVICE_NAME_MATCHING[CHOOSE i \in hits : \A j \in hits : j <= i][2]

\* variant: no `return original_service_name` after the loop
get_service_name_no_fallback(original_service_name) ==
    IF \E i \in 1..Len(SERVICE_NAME_MATCHING) :
          ReMatch(SERVICE_NAME_MATCHING[i][1], original_service_name)
    THEN ServiceNameFrom(1, original_service_name)
    ELSE <<>>

get_service_name(original_service_name) ==
    ServiceNameFrom(1, original_service_name)

\* raw service names: up to MaxNameParts of these pieces, concatenated
NameTokens ==
    { <<"a", "j", "p">>, <<"f", "t", "p">>, <<"h", "t", "t", "p">>, <<"j", "a", "v", "a", "-", "r", "m", "i">>, <<"j", "d", "w", "p">>, <<"m", "s", "s", "q", "l">>, <<"m", "y", "s", "q", "l">>,
      <<"o", "r", "a", "c", "l", "e">>, <<"p", "o", "s", "t", "g", "r", "e", "s", "q", "l">>, <<"r", "d", "p">>, <<"s", "m", "b">>, <<"s", "m", "t", "p">>, <<"s", "n", "m", "p">>, <<"s", "s", "h">>,
      <<"t", "e", "l", "n", "e", "t">>, <<"v", "n", "c">>, <<"s", "s", "l", "/", "s", "s", "l">>, <<"r", "m", "i", "r", "e", "g", "i", "s", "t", "r", "y">>, <<"m", "s", "-", "s", "q", "l">>, <<"p", "o", "s", "t", "g", "r", "e">>,
      <<"m", "s", "-", "w", "b", "t", "-", "s", "e", "r", "v", "e", "r">>, <<"m", "i", "c", "r", "o", "s", "o", "f", "t", "-", "d", "s">>, <<"H", "T", "T", "P">>, <<"h", "t", "t", "p", "s", "-", "w", "m", "a", "p">>, <<"h", "t", "t", "p", "s", "-", "a", "l", "t">>,
      <<"r", "d", "p", "-", "s", "e", "c">>, <<"f", "o", "o", "b", "a", "r", "-", "p", "r", "o", "t", "o">>, <<"s">>, <<"-", "x">>, <<" ">>, <<>> }

RECURSIVE NamesOf(_)
NamesOf(n) ==
    IF n = 0 THEN {<<>>}
    ELSE {a \o b : a \in NamesOf(n - 1), b \in NameTokens}

NameInputs == NamesOf(MaxNameParts)

\* no Condition; a raw service name waits to be normalised
InitNorm ==
    /\ conds = <<>>
    /\ ctor = <<>>
    /\ first = <<>>
    /\ last = <<>>
    /\ sessions = 0
    /\ rawName \in NameInputs
    /\ svcName = <<>>
    /\ svcName2 = <<>>
    /\ namePc = "idle"

\* svcName = get_service_name(rawName)
GetServiceName ==
    /\ namePc = "idle"
    /\ svcName' = get_service_name(rawName)
    /\ namePc' = "once"
    /\ UNCHANGED <<conds, ctor, first, last, sessions, rawName, svcName2>>

\* svcName2 = get_service_name(svcName)
Renormalize ==
    /\ namePc = "once"
    /\ svcName2' = get_service_name(svcName)
    /\ namePc' = "twice"
    /\ UNCHANGED <<conds, ctor, first, last, sessions, rawName, svcName>>

NextNorm == GetServiceName \/ Renormalize

SpecNorm == InitNorm /\ [][NextNorm]_vars

-----------------------------------------------------------------------------
(* Vocabulary of the properties.                                           *)

Objects == DOMAIN conds
Called(c) == last[c] # NotCalled
Kind(c) == conds[c].filtertype

\* v has the integer-string syntax of the id kinds
IsIntegerString(v) == v.t = "str" /\ CanInt(v)

\* v does not have the value syntax documented for the kind
Malformed(kind, v) ==
    CASE kind = "IP" -> ~(is_valid_ip(v) \/ is_valid_ip_range(v))
      [] kind = "PORT" -> ~(is_valid_port(v) \/ is_valid_port_range(v))
      [] kind = "PROTOCOL" -> ~(v.t = "str" /\ Lower(v.s) \in {<<"t", "c", "p">>, <<"u", "d", "p">>})
      [] kind = "UP" -> v.t \notin {"bool", "str"}
      [] kind \in {"SERVICE_ID", "CHECK_ID"} -> ~IsIntegerString(v)
      [] kind \in {"USER_AND_PASS", "ONLY_USER"} -> v.t # "bool"
      [] OTHER -> FALSE

AnyMalformed(c) ==
    \E i \in 1..Len(conds[c].value) : Malformed(Kind(c), conds[c].value[i])

FirstMalformed(c) ==
    CHOOSE i \in 1..Len(conds[c].value) :
        /\ Malformed(Kind(c), conds[c].value[i])
        /\ \A j \in 1..(i - 1) : ~Malformed(Kind(c), conds[c].value[j])

\* the filters the comparator of kind gives for the values, None left out
RECURSIVE NonNullPreds(_, _)
NonNullPreds(kind, value) ==
    IF value = <<>> THEN <<>>
    ELSE LET p == Call(Mapping[kind], value[1]).pred
         IN  (IF p = None THEN <<>> ELSE <<p>>)
             \o NonNullPreds(kind, Tail(value))

\* p1 | p2 | ... | pn, grouped from the left; None for no filter
RECURSIVE OrOf(_)
OrOf(ps) ==
    IF ps = <<>> THEN None
    ELSE IF Len(ps) = 1 THEN ps[1]
    ELSE Or(OrOf(SubSeq(ps, 1, Len(ps) - 1)), ps[Len(ps)])

\* a filter on Service.port holds of a service with port p
RECURSIVE HoldsOfPort(_, _)
HoldsOfPort(pred, p) ==
    CASE pred.op = "eq" -> pred.field = "Service.port" /\ pred.arg.n = p
      [] pred.op = "between" ->
            /\ pred.field = "Service.port"
            /\ pred.arg.n <= p
            /\ p <= pred.arg2.n
      [] pred.op = "or" -> HoldsOfPort(pred.l, p) \/ HoldsOfPort(pred.r, p)
      [] OTHER -> FALSE

SamplePorts == {80, 7999, 8000, 8050, 8100, 8101}

PortRangeMin(v) == DigitRunVal(Split(v.s, "-")[1], 0)
PortRangeMax(v) == DigitRunVal(Split(v.s, "-")[2], 0)

-----------------------------------------------------------------------------
(* C1: for a recognized kind and values none of which is malformed,        *)
(* translate returns the OR, in first-to-last order, of exactly the        *)
(* non-null per-value filters: one filter as is, None when there is none.  *)
C1_OrOfNonNullInOrder ==
    \A c \in Objects :
        (Called(c) /\ Kind(c) \in MappedKinds /\ ~AnyMalformed(c))
        => /\ last[c].kind = "return"
           /\ last[c].pred = OrOf(NonNullPreds(Kind(c), conds[c].value))

-----------------------------------------------------------------------------
(* C2: for the kinds IP, PORT, PROTOCOL and UP, a malformed value at any   *)
(* position makes translate raise the validation failure (FilterException) *)
(* at the first malformed value: no filter is returned, and no value after *)
(* it is given to the comparator.                                          *)
C2_MalformedRaisesValidationFailure ==
    \A c \in Objects :
        (Called(c) /\ Kind(c) \in {"IP", "PORT", "PROTOCOL", "UP"}
                   /\ AnyMalformed(c))
        => /\ last[c].kind = "raise"
           /\ last[c].exc = "FilterException"
           /\ last[c].invoked = FirstMalformed(c)

-----------------------------------------------------------------------------
(* C3: with a kind that is not in the kind->comparator table, translate    *)
(* returns None, raises nothing and calls no comparator, whatever the      *)
(* values.                                                                 *)
C3_UnknownKindReturnsNone ==
    \A c \in Objects :
        (Called(c) /\ Kind(c) \notin MappedKinds)
        => /\ last[c].kind = "return"
           /\ last[c].pred = None
           /\ last[c].invoked = 0
           /\ sessions = 0

\* an unknown kind translated with two values, one of them an int, which no
\* kind with a value syntax accepts
W_C3 ==
    \E c \in Objects :
        /\ Called(c)
        /\ Kind(c) \notin MappedKinds
        /\ Len(conds[c].value) = 2
        /\ conds[c].value[1] = IntVal(5)

-----------------------------------------------------------------------------
(* C4: for every recognized kind, the unscanned kind included, translate   *)
(* of an empty values list returns None and raises nothing; a Condition    *)
(* built from a single non-list input has exactly that one value.          *)
C4_EmptyValuesReturnNone ==
    \A c \in Objects :
        /\ (Called(c) /\ Kind(c) \in MappedKinds /\ conds[c].value = <<>>)
           => (last[c].kind = "return" /\ last[c].pred = None)
        /\ ~ctor[c].value.list
           => conds[c].value = <<ctor[c].value.items[1]>>

\* the unscanned kind translated with an empty list
W_C4 ==
    \E c \in Objects :
        /\ Called(c)
        /\ Kind(c) = "UNSCANNED"
        /\ ctor[c].value.list
        /\ conds[c].value = <<>>

-----------------------------------------------------------------------------
(* C5: translate of a PORT Condition whose value is a valid min-max range  *)
(* returns a filter on Service.port that holds exactly of the ports p with *)
(* min <= p <= max; a valid single port returns equality on Service.port.  *)
C5_PortRangeIsInclusive ==
    \A c \in Objects :
        (Called(c) /\ Kind(c) = "PORT" /\ Len(conds[c].value) = 1)
        => LET v == conds[c].value[1]
           IN  /\ is_valid_port_range(v)
                  => /\ last[c].kind = "return"
                     /\ \A p \in SamplePorts :
                           HoldsOfPort(last[c].pred, p)
                           <=> (PortRangeMin(v) <= p /\ p <= PortRangeMax(v))
               /\ is_valid_port(v)
                  => /\ last[c].kind = "return"
                     /\ last[c].pred = Eq("Service.port", IntVal(PyInt(v)))

-----------------------------------------------------------------------------
(* C6: translate of a SERVICE_ID or CHECK_ID Condition raises the          *)
(* validation failure (FilterException) for a value that is no integer     *)
(* string, and returns equality on the id column with the parsed integer   *)
(* for an integer string.                                                  *)
C6_IdValueValidated ==
    \A c \in Objects :
        (Called(c) /\ Kind(c) \in {"SERVICE_ID", "CHECK_ID"}
                   /\ Len(conds[c].value) = 1 /\ conds[c].value[1].t = "str")
        => LET v == conds[c].value[1]
               column == IF Kind(c) = "SERVICE_ID" THEN "Service.id"
                         ELSE "Result.id"
           IN  IF IsIntegerString(v)
               THEN /\ last[c].kind = "return"
                    /\ last[c].pred = Eq(column, IntVal(PyInt(v)))
               ELSE /\ last[c].kind = "raise"
                    /\ last[c].exc = "FilterException"

-----------------------------------------------------------------------------
(* C7: for USER_AND_PASS and ONLY_USER with boolean values, false gives no *)
(* filter and true gives username-set AND password-set, respectively       *)
(* username-set AND password-unset; the result is None iff no value is     *)
(* true.                                                                   *)
C7_BooleanFlagAsymmetry ==
    \A c \in Objects :
        (Called(c) /\ Kind(c) \in {"USER_AND_PASS", "ONLY_USER"}
                   /\ \A i \in 1..Len(conds[c].value) :
                         conds[c].value[i].t = "bool")
        => LET value == conds[c].value
               whenTrue ==
                   And(IsNotNone("Credential.username"),
                       IF Kind(c) = "USER_AND_PASS"
                       THEN IsNotNone("Credential.password")
                       ELSE IsNone("Credential.password"))
           IN  /\ last[c].kind = "return"
               /\ last[c].pred = None
                  <=> ~(\E i \in 1..Len(value) : value[i] = BoolVal(TRUE))
               /\ value = <<BoolVal(FALSE)>> => last[c].pred = None
               /\ value = <<BoolVal(TRUE)>> => last[c].pred = whenTrue

\* ONLY_USER translated with [False, True]: the false value is left out
W_C7 ==
    \E c \in Objects :
        /\ Called(c)
        /\ Kind(c) = "ONLY_USER"
        /\ conds[c].value = <<BoolVal(FALSE), BoolVal(TRUE)>>
        /\ last[c].pred # None

-----------------------------------------------------------------------------
(* C8: get_service_name returns the service name of the earliest rule, in  *)
(* table order, whose pattern matches the input with case ignored, even    *)
(* when later rules match too, and the input itself when no rule matches   *)
(* (the empty string included).                                            *)
MatchingRules(s) ==
    {i \in 1..Len(SERVICE_NAME_MATCHING) : ReMatch(SERVICE_NAME_MATCHING[i][1], s)}

C8_FirstMatchWins ==
    namePc # "idle"
    => /\ LET hits == MatchingRules(rawName)
          IN  IF hits = {} THEN svcName = rawName
              ELSE svcName =
                     SERVICE_NAME_MATCHING[
                        CHOOSE i \in hits : \A j \in hits : i <= j][2]
       /\ rawName = <<"h", "t", "t", "p", "s", "-", "w", "m", "a", "p">> => svcName = <<"h", "t", "t", "p">>
       /\ rawName = <<"r", "d", "p", "-", "s", "e", "c">> => svcName = <<"r", "d", "p">>
       /\ rawName = <<"f", "o", "o", "b", "a", "r", "-", "p", "r", "o", "t", "o">> => svcName = <<"f", "o", "o", "b", "a", "r", "-", "p", "r", "o", "t", "o">>
       /\ rawName = <<>> => svcName = <<>>

\* a name that rules with different service names match: the earlier wins
W_C8 ==
    /\ namePc # "idle"
    /\ \E i, j \in MatchingRules(rawName) :
          /\ i < j
          /\ SERVICE_NAME_MATCHING[i][2] # SERVICE_NAME_MATCHING[j][2]
          /\ svcName = SERVICE_NAME_MATCHING[i][2]

-----------------------------------------------------------------------------
(* C9: get_service_name leaves every service name of the table as it is,   *)
(* and applying it twice gives what applying it once gives.                *)
CanonicalNames ==
    {SERVICE_NAME_MATCHING[i][2] : i \in 1..Len(SERVICE_NAME_MATCHING)}

C9_Idempotent ==
    /\ (namePc # "idle" /\ rawName \in CanonicalNames) => svcName = rawName
    /\ namePc = "twice" => svcName2 = svcName

\* a name that the first call rewrote, normalised a second time
W_C9 ==
    /\ namePc = "twice"
    /\ svcName # rawName
    /\ svcName \in CanonicalNames

-----------------------------------------------------------------------------
(* C10: a translate call, whether it returns a filter, returns None or     *)
(* raises, leaves every Condition's values, kind and table as they are;    *)
(* each call on a Condition, however interleaved with calls on others,     *)
(* has the outcome of a single call on a Condition just built.             *)
AloneOutcome(c) ==
    translate(Condition(ctor[c].value, ctor[c].filtertype)).outcome

C10_TranslateKeepsNoState ==
    /\ [][conds' = conds]_vars
    /\ [](\A c \in Objects :
             Called(c) => (last[c] = first[c] /\ last[c] = AloneOutcome(c)))

\* the unscanned Condition translated twice, the other one having raised
W_C10 ==
    \E c, d \in Objects :
        /\ c # d
        /\ Kind(c) = "UNSCANNED"
        /\ Len(conds[c].value) = 1
        /\ sessions = 2
        /\ Called(d)
        /\ last[d].kind = "raise"

====
